---------------------------- MODULE Spec2Model ----------------------------
(***************************************************************************)
(* A model of lspindex: main() of src/src/lspindex.ts (the per-file loop   *)
(* that queries a language server for document symbols and references,     *)
(* the reference resolution loop, the teardown in `finally`) and asGXL()   *)
(* of the graph module (src/unnamed/part_000).                             *)
(*                                                                         *)
(* Representation.  A path is the sequence of its segments; a file URI is  *)
(* the pair <<"file:", absolute path>>; a line of text is the sequence of  *)
(* its characters.  JavaScript objects live in `heap` under an object id,  *)
(* and lists and maps hold object ids, so that a mutation of one object is *)
(* seen through every list that holds it and Map keys compare by identity. *)
(* A Map is the sequence of its [key, val] entries in insertion order.     *)
(* object-hash is modelled as an injective function of the hashed value.   *)
(***************************************************************************)
EXTENDS Integers, Sequences, FiniteSets, TLC

\* The most files the glob stream yields in one run.
MaxFiles == 2

\* The value of a property that is absent (JavaScript undefined).
Undefined == "<undefined>"

\* process.cwd(): what path.resolve / path.relative / pathToFileURL resolve
\* a relative path against.
Cwd == <<"w">>

----------------------------------------------------------------------------
\* Sequences

Last(s) == s[Len(s)]

Front(s) == SubSeq(s, 1, Len(s) - 1)

\* String.prototype.slice(n), n a 0-based index
Slice(s, n) == IF n >= Len(s) THEN <<>> ELSE SubSeq(s, n + 1, Len(s))

\* String.prototype.startsWith
StartsWith(s, p) == Len(s) >= Len(p) /\ SubSeq(s, 1, Len(p)) = p

Range(s) == { s[i] : i \in 1..Len(s) }

----------------------------------------------------------------------------
\* Paths (Node's path and url modules on a POSIX host)

\* A path string: absolute with the given segments, or relative to Cwd.
\* The empty string is the relative path with no segments.
AbsPath(segs) == [abs |-> TRUE, segs |-> segs]

EmptyString == [abs |-> FALSE, segs |-> <<>>]

\* file.toString().split(path.sep): the leading "/" gives an empty first segment
Split(absSegs) == <<"">> \o absSegs

\* segments.join(path.sep)
Join(segments) ==
    IF Len(segments) <= 1 THEN EmptyString ELSE AbsPath(Tail(segments))

\* path.resolve(p)
PathResolve(p) == IF p.abs THEN p.segs ELSE Cwd \o p.segs

RECURSIVE CommonPrefixLen(_, _)
CommonPrefixLen(a, b) ==
    IF a = <<>> \/ b = <<>> \/ Head(a) # Head(b) THEN 0
    ELSE 1 + CommonPrefixLen(Tail(a), Tail(b))

\* path.relative(from, to) for resolved paths: the segments of the result,
\* <<>> being the empty string
Relative(from, to) ==
    LET n == CommonPrefixLen(from, to)
    IN  [i \in 1..(Len(from) - n) |-> ".."] \o Slice(to, n)

\* relative === ".." || relative.startsWith(".." + path.sep)
IsOutside(rel) ==
    \/ rel = <<"..">>
    \/ (Len(rel) >= 2 /\ rel[1] = "..")

\* path.basename of an absolute or empty path string
Basename(p) == IF p.segs = <<>> THEN "" ELSE Last(p.segs)

\* path.basename(path.join(p, "..")) for an absolute or empty path string
ParentBasename(p) ==
    IF ~p.abs /\ p.segs = <<>> THEN ".."
    ELSE IF Len(p.segs) <= 1 THEN ""
    ELSE p.segs[Len(p.segs) - 1]

\* path.basename(rel) for the result of path.relative
RelBasename(rel) == IF rel = <<>> THEN "" ELSE Last(rel)

\* path.basename(path.join(rel, "..")) for the result of path.relative
RelParentBasename(rel) ==
    IF rel = <<>> THEN ".."
    ELSE IF Len(rel) = 1 THEN (IF rel[1] = ".." THEN ".." ELSE ".")
    ELSE IF Last(rel) = ".." THEN ".."
    ELSE rel[Len(rel) - 1]

\* path.join(filePath, "..") for a resolved path
ParentDir(absSegs) == IF absSegs = <<>> THEN <<>> ELSE Front(absSegs)

\* pathToFileURL(p).href
PathToFileURL(p) == <<"file:", PathResolve(p)>>

\* fileURLToPath(uri)
FileURLToPath(uri) == uri[2]

\* name === path.relative(...): a symbol name (which holds no separator)
\* equals a relative path only if the path has at most one segment
NameIsPath(name, rel) ==
    \/ (rel = <<>> /\ name = "")
    \/ (Len(rel) = 1 /\ rel[1] = name)

----------------------------------------------------------------------------
\* Positions and ranges

Pos(l, c) == [line |-> l, character |-> c]

Rng(sl, sc, el, ec) == [start |-> Pos(sl, sc), end |-> Pos(el, ec)]

\* the range a synthesized File symbol is given
ZeroRange == Rng(0, 0, 0, 0)

PosBefore(p, q) ==
    \/ p.line < q.line
    \/ (p.line = q.line /\ p.character < q.character)

\* Range.prototype.contains(range) of @sourcegraph/extension-api-classes:
\* both ends of the other range lie in this one, ends included
RangeContains(r, other) ==
    /\ ~PosBefore(other.start, r.start)
    /\ ~PosBefore(r.end, other.start)
    /\ ~PosBefore(other.end, r.start)
    /\ ~PosBefore(r.end, other.end)

----------------------------------------------------------------------------
\* Symbol kinds

\* the kinds in the order symbolSizes lists them, before .reverse()
symbolSizeList ==
    << "Package", "Namespace", "File", "Module", "Class", "Function", "Enum",
       "Interface", "Method", "Constructor", "Field", "Property",
       "EnumMember", "Variable", "TypeParameter", "Constant", "String",
       "Number", "Boolean", "Array", "Object", "Key", "Null", "Struct",
       "Event", "Operator" >>

\* the decimal digits of n < 100, as lodash's invert stores the index
DecimalString(n) == IF n < 10 THEN <<n>> ELSE <<n \div 10, n % 10>>

\* symbolSizes[kind]: the index of the kind in the reversed list, as a string
symbolSizes(kind) ==
    LET i == CHOOSE j \in 1..Len(symbolSizeList) : symbolSizeList[j] = kind
    IN  DecimalString(Len(symbolSizeList) - i)

\* a < b for two strings of digits (JavaScript string comparison)
StringLess(a, b) ==
    \/ (Len(a) < Len(b) /\ SubSeq(b, 1, Len(a)) = a)
    \/ \E i \in 1..Len(a) :
          /\ i <= Len(b)
          /\ SubSeq(a, 1, i - 1) = SubSeq(b, 1, i - 1)
          /\ a[i] < b[i]

\* getGXLSymbolKind(symbol)
getGXLSymbolKind(kind) ==
    CASE kind \in {"File", "Module"}    -> "File"
      [] kind = "Class"                 -> "Class"
      [] kind \in {"Field", "Property"} -> "Member"
      [] kind = "Method"                -> "Method"
      [] kind = "Function"              -> "Routine"
      [] OTHER                          -> Undefined

----------------------------------------------------------------------------
\* Symbols

\* A symbol object.  isDoc tells a DocumentSymbol (range and selectionRange,
\* no location) from a SymbolInformation (location.uri and location.range,
\* held in uri and range).
Sym(name, kind, containerName, uri, range, isDoc) ==
    [ name |-> name, kind |-> kind, containerName |-> containerName,
      uri |-> IF isDoc THEN <<Undefined, <<>>>> ELSE uri,
      range |-> range,
      selectionRange |-> IF isDoc THEN range ELSE ZeroRange,
      isDoc |-> isDoc ]

\* DocumentSymbol.is(symbol) ? symbol.range : symbol.location.range
SymbolRange(sym) == sym.range

\* DocumentSymbol.is(symbol) ? symbol.selectionRange : symbol.location.range
SymbolSelectionRange(sym) == IF sym.isDoc THEN sym.selectionRange ELSE sym.range

\* object ids
SymOid(f, i) == [tag |-> "sym", file |-> f, idx |-> i, path |-> <<>>]

DirOid(absSegs) == [tag |-> "dir", file |-> 0, idx |-> 0, path |-> absSegs]

FileOid(f) == [tag |-> "file", file |-> f, idx |-> 0, path |-> <<>>]

\* object-hash of an object: injective in the hashed value
objectId(value) == <<"sha1", "object", <<value>>>>

\* object-hash of an array of objects; an array never hashes as an object
objectIdOfArray(values) == <<"sha1", "array", values>>

----------------------------------------------------------------------------
\* Maps (insertion ordered, as a JavaScript Map)

MapHas(m, k) == \E i \in 1..Len(m) : m[i].key = k

\* Map.prototype.get; Undefined when the key is absent
MapGet(m, k) ==
    IF MapHas(m, k)
    THEN m[CHOOSE i \in 1..Len(m) : m[i].key = k].val
    ELSE Undefined

\* Map.prototype.set: an existing key keeps its place
MapSet(m, k, v) ==
    IF MapHas(m, k)
    THEN [i \in 1..Len(m) |-> IF m[i].key = k THEN [key |-> k, val |-> v] ELSE m[i]]
    ELSE Append(m, [key |-> k, val |-> v])

----------------------------------------------------------------------------
\* The environment: the file system and what the provider answers

\* the root paths a run is started with
RootPaths == { <<"a", "b">> }

\* the files the glob can yield under a root
CandidateFiles(rootPath) ==
    { rootPath \o <<"m.py">>, rootPath \o <<"c", "d.py">>, rootPath \o <<"c", "e.py">> }

\* the lines of a file (content.split("\n")), by its base name
FileLines(absSegs) ==
    IF Last(absSegs) = "m.py"
    THEN << <<"c", "l", "a", "s", "s", " ", "M", ":">>,
            <<"i", "m", "p", "o", "r", "t", " ", "m">>,
            <<" ", " ", "d", "e", "f", " ", "f", "(", "s", ")", ":">>,
            <<"d", "e", "f", " ", "g", "c", "l", "a", "s", "s", " ", "(", "x", ")", ":">>,
            <<"d", "e", "f", " ", "i", "m", "p", "o", "r", "t", "a", "n", "t", "(", ")", ":">>,
            <<"x", " ", "=", " ", "1">> >>
    ELSE << <<"d", "e", "f", " ", "f", "o", "o", "(", ")", ":">>,
            <<"f", "r", "o", "m", " ", "m", " ", "i", "m", "p", "o", "r", "t", " ", "M">>,
            <<"c", "l", "a", "s", "s", " ", "A", ":">> >>

\* a provider result: null, or a list
NullResult == [isNull |-> TRUE, items |-> <<>>]

ListResult(items) == [isNull |-> FALSE, items |-> items]

\* the answers to a document-symbols request the provider is taken to give
DocumentSymbolResults(absSegs) ==
    LET uri == <<"file:", absSegs>>
    IN  IF Last(absSegs) = "m.py"
        THEN { NullResult,
               ListResult(<< Sym("M", "Class", Undefined, uri, Rng(0, 0, 10, 0), FALSE),
                             Sym("f", "Method", "M", uri, Rng(2, 2, 4, 0), FALSE) >>),
               ListResult(<< Sym("f", "Method", "M", uri, Rng(2, 2, 4, 0), FALSE),
                             Sym("M", "Class", Undefined, uri, Rng(0, 0, 10, 0), FALSE) >>),
               ListResult(<< Sym("m.py", "File", Undefined, uri, Rng(0, 0, 10, 0), FALSE),
                             Sym("x", "Variable", Undefined, uri, Rng(5, 0, 5, 5), FALSE),
                             Sym("g", "Function", "m", uri, Rng(3, 0, 3, 15), FALSE),
                             Sym("m", "Module", Undefined, uri, Rng(1, 7, 1, 8), FALSE) >>),
               ListResult(<< Sym("f", "Method", "M", uri, Rng(2, 2, 4, 0), FALSE),
                             Sym("f", "Method", "N", uri, Rng(2, 2, 4, 0), FALSE) >>) }
        ELSE IF Last(absSegs) = "e.py"
        THEN { NullResult,
               ListResult(<< Sym("A", "Class", Undefined, uri, Rng(2, 0, 3, 0), FALSE) >>) }
        ELSE { ListResult(<< Sym("foo", "Function", Undefined, uri, Rng(0, 0, 0, 10), FALSE) >>),
               ListResult(<< Sym("A", "Class", Undefined, uri, Rng(2, 0, 3, 0), TRUE) >>),
               ListResult(<< Sym("late", "Function", Undefined, uri, Rng(9, 0, 9, 3), FALSE) >>) }

Loc(absSegs, range) == [uri |-> <<"file:", absSegs>>, range |-> range]

\* the answers to a references request the provider is taken to give
ReferencesResults(rootPath) ==
    { NullResult,
      ListResult(<< Loc(rootPath \o <<"m.py">>, Rng(6, 4, 6, 5)) >>),
      ListResult(<< Loc(rootPath \o <<"m.py">>, Rng(3, 1, 3, 2)),
                    Loc(rootPath \o <<"z.py">>, Rng(1, 0, 1, 1)) >>),
      ListResult(<< Loc(rootPath \o <<"c", "d.py">>, Rng(0, 4, 0, 7)),
                    Loc(rootPath \o <<"m.py">>, Rng(20, 0, 20, 1)) >>) }

\* the sequences without repetition of at most n elements of S
RECURSIVE InjectiveSeqs(_, _)
InjectiveSeqs(S, n) ==
    IF n = 0 THEN { <<>> }
    ELSE LET shorter == InjectiveSeqs(S, n - 1)
         IN  shorter \cup UNION { { Append(q, x) : x \in S \ Range(q) } : q \in shorter }

----------------------------------------------------------------------------
\* main: the pure parts of the per-file loop

\* docSymbols.filter(getGXLSymbolKind)
RECURSIVE FilterGXLSymbols(_, _)
FilterGXLSymbols(oids, hp) ==
    IF oids = <<>> THEN <<>>
    ELSE (IF getGXLSymbolKind(hp[Head(oids)].kind) # Undefined
          THEN <<Head(oids)>> ELSE <<>>) \o FilterGXLSymbols(Tail(oids), hp)

\* the test without its first half: a walk that does not end at ".."
DirectoryWalkEndsBelowParent(relativeDirPath) ==
    Len(relativeDirPath) >= 2 /\ relativeDirPath[1] = ".."

\* the test that ends the walk up the directories
DirectoryWalkEnds(relativeDirPath) == IsOutside(relativeDirPath)

\* the directory pseudo-symbol
DirectorySymbol(dir) ==
    Sym(Basename(dir), "File", ParentBasename(dir), PathToFileURL(dir), ZeroRange, FALSE)

\* "Add symbols for directories": while (segments.pop()) { ... }, from the
\* segments of the file; gives the map and the heap after the loop
RECURSIVE DirectoryLoop(_, _, _, _)
DirectoryLoop(segments, rootPath, syms, hp) ==
    IF segments = <<>> \/ Last(segments) = ""
    THEN [symbols |-> syms, heap |-> hp]
    ELSE LET rest == Front(segments)
             dir  == Join(rest)
             uri  == PathToFileURL(dir)
         IN  IF DirectoryWalkEnds(Relative(rootPath, PathResolve(dir)))
             THEN [symbols |-> syms, heap |-> hp]
             ELSE IF MapHas(syms, uri)
             THEN DirectoryLoop(rest, rootPath, syms, hp)
             ELSE DirectoryLoop(rest, rootPath,
                                MapSet(syms, uri, <<DirOid(uri[2])>>),
                                hp @@ (DirOid(uri[2]) :> DirectorySymbol(dir)))

\* [A-Za-z0-9_], the characters \b does not break between
WordChars ==
    { "a", "b", "c", "d", "e", "f", "g", "h", "i", "j", "k", "l", "m", "n",
      "o", "p", "q", "r", "s", "t", "u", "v", "w", "x", "y", "z",
      "A", "B", "C", "D", "E", "F", "G", "H", "I", "J", "K", "L", "M", "N",
      "O", "P", "Q", "R", "S", "T", "U", "V", "W", "X", "Y", "Z",
      "0", "1", "2", "3", "4", "5", "6", "7", "8", "9", "_" }

ImportKeyword == <<"i", "m", "p", "o", "r", "t">>

DefKeyword == <<"d", "e", "f", " ">>

ClassKeyword == <<"c", "l", "a", "s", "s", " ">>

\* the character at a 1-based index, "" outside the line
CharAt(lineContent, i) ==
    IF i \in 1..Len(lineContent) THEN lineContent[i] ELSE ""

\* /\bimport\b/.test(lineContent)
IsImportLine(lineContent) ==
    \E i \in 1..Len(lineContent) :
        /\ StartsWith(Slice(lineContent, i - 1), ImportKeyword)
        /\ CharAt(lineContent, i - 1) \notin WordChars
        /\ CharAt(lineContent, i + Len(ImportKeyword)) \notin WordChars

\* a skip of the keyword alone, without the + 1
KeywordLengthOnly == Len(DefKeyword)

\* how far the position moves over "def " and over "class "
DefSkip == Len(DefKeyword) + 1

ClassSkip == Len(ClassKeyword) + 1

\* referencePosition.character after the two keyword tests, from the column
\* the declaration starts at
ReferenceCharacter(lineContent, character) ==
    LET afterDef ==
            IF StartsWith(Slice(lineContent, character), DefKeyword)
            THEN character + DefSkip ELSE character
    IN  IF StartsWith(Slice(lineContent, afterDef), ClassKeyword)
        THEN afterDef + ClassSkip ELSE afterDef

\* referencePosition is range.start itself, so the += moves the start of
\* the symbol's own (selection) range
WithStartCharacter(sym, character) ==
    IF sym.isDoc
    THEN [sym EXCEPT !.selectionRange.start.character = character]
    ELSE [sym EXCEPT !.range.start.character = character]

\* the File symbol pushed onto docSymbols when a file is done
FileSymbol(rootPath, file) ==
    LET relativePath == Relative(rootPath, file)
    IN  Sym(RelBasename(relativePath), "File", RelParentBasename(relativePath),
            <<"file:", file>>, ZeroRange, FALSE)

----------------------------------------------------------------------------
\* main: the reference resolution loop

\* insertion sort of object ids by symbolSizes of their kind, stable
RECURSIVE InsertBySize(_, _, _)
InsertBySize(sorted, oid, hp) ==
    IF sorted = <<>> THEN <<oid>>
    ELSE IF StringLess(symbolSizes(hp[oid].kind), symbolSizes(hp[Head(sorted)].kind))
    THEN <<oid>> \o sorted
    ELSE <<Head(sorted)>> \o InsertBySize(Tail(sorted), oid, hp)

\* sortBy(documentSymbols.slice(0), s => symbolSizes[s.kind]): a sorted copy
RECURSIVE sortBySize(_, _)
sortBySize(oids, hp) ==
    IF oids = <<>> THEN <<>>
    ELSE InsertBySize(sortBySize(Front(oids), hp), Last(oids), hp)

NoOid == [tag |-> "none", file |-> 0, idx |-> 0, path |-> <<>>]

\* documentSymbols.find(symbol => range(symbol).contains(referenceRange)).
\* The sorted copy that sortBySize gives is dropped by the code: the search
\* runs over documentSymbols as stored.
FindReferencingSymbol(documentSymbols, referenceRange, hp) ==
    LET hits == { i \in 1..Len(documentSymbols) :
                    RangeContains(SymbolRange(hp[documentSymbols[i]]), referenceRange) }
    IN  IF hits = {} THEN NoOid
        ELSE documentSymbols[CHOOSE i \in hits : \A j \in hits : i <= j]

\* the body of `for (const reference of references)`: referencingSymbols
RECURSIVE ReferencingSymbols(_, _, _)
ReferencingSymbols(references, syms, hp) ==
    IF references = <<>> THEN <<>>
    ELSE LET reference == Head(references)
             rest == ReferencingSymbols(Tail(references), syms, hp)
         IN  IF ~MapHas(syms, reference.uri) THEN rest
             ELSE LET found == FindReferencingSymbol(MapGet(syms, reference.uri),
                                                     reference.range, hp)
                  IN  IF found = NoOid THEN rest ELSE <<found>> \o rest

\* the whole loop: symbolToSymbolReferences
ResolveReferences(allRefs, syms, hp) ==
    [ i \in 1..Len(allRefs) |->
        [key |-> allRefs[i].key, val |-> ReferencingSymbols(allRefs[i].val, syms, hp)] ]

----------------------------------------------------------------------------
\* asGXL

\* an id that is a bare hash, without the "name:" that a node id starts with
HashID(hash) == [pre |-> <<>>, hash |-> hash]

\* const nodeID = symbol.name + ":" + objectId(symbol)
nodeID(sym) == [pre |-> <<sym.name, ":">>, hash |-> objectId(sym)]

createGXLEdge(from, to, type) == [from |-> from, to |-> to, type |-> type]

\* createGXLNode; ok is FALSE where it throws for an attribute without value
createGXLNode(id, type, name, line, column, relPath) ==
    [ ok |-> name # Undefined,
      node |-> [id |-> id, type |-> type, name |-> name,
                line |-> line, column |-> column, path |-> relPath] ]

\* the values of a list of objects
Deref(oids, hp) == [i \in 1..Len(oids) |-> hp[oids[i]]]

\* the Enclosing edges appended to the graph for one symbol.  Only the edge
\* of a File symbol to its parent directory is appended; the edge of any
\* other symbol to its container or to its file is created and dropped.
EnclosingEdges(uri, sym, symbolsByFile, rootPath, hp) ==
    IF sym.kind = "File"
    THEN LET filePath == FileURLToPath(uri)
             parentDirectoryUri == <<"file:", ParentDir(filePath)>>
         IN  IF /\ ~IsOutside(Relative(rootPath, filePath))
                /\ MapHas(symbolsByFile, parentDirectoryUri)
             THEN << createGXLEdge(nodeID(sym),
                                   HashID(objectIdOfArray(Deref(MapGet(symbolsByFile, parentDirectoryUri), hp))),
                                   "Enclosing") >>
             ELSE <<>>
    ELSE <<>>

\* the Source_Dependency edges of one symbol, one per entry of
\* references.get(symbol)
DependencyEdges(oid, references, hp) ==
    LET referencing == IF MapHas(references, oid) THEN MapGet(references, oid) ELSE <<>>
    IN  [ i \in 1..Len(referencing) |->
            createGXLEdge(HashID(objectId(hp[referencing[i]])), nodeID(hp[oid]),
                          "Source_Dependency") ]

EmptyGXL == [ok |-> TRUE, nodes |-> <<>>, edges |-> <<>>, edgeNodeIds |-> <<>>]

\* the body of `for (const symbol of symbols)` for one symbol
SymbolGXL(uri, oid, symbolsByFile, references, rootPath, hp) ==
    LET sym == hp[oid]
        type == getGXLSymbolKind(sym.kind)
        made == createGXLNode(nodeID(sym), type, sym.name,
                              SymbolRange(sym).start.line,
                              SymbolRange(sym).start.character,
                              Relative(rootPath, FileURLToPath(uri)))
        deps == DependencyEdges(oid, references, hp)
    IN  IF type = Undefined THEN EmptyGXL
        ELSE [ ok |-> made.ok,
               nodes |-> <<made.node>>,
               edges |-> EnclosingEdges(uri, sym, symbolsByFile, rootPath, hp) \o deps,
               edgeNodeIds |-> deps ]

\* the elements of the symbols from the i-th symbol of the k-th entry on
RECURSIVE GXLFrom(_, _, _, _, _, _)
GXLFrom(k, i, symbolsByFile, references, rootPath, hp) ==
    IF k > Len(symbolsByFile) THEN EmptyGXL
    ELSE IF i > Len(symbolsByFile[k].val)
    THEN GXLFrom(k + 1, 1, symbolsByFile, references, rootPath, hp)
    ELSE LET this == SymbolGXL(symbolsByFile[k].key, symbolsByFile[k].val[i],
                               symbolsByFile, references, rootPath, hp)
             rest == GXLFrom(k, i + 1, symbolsByFile, references, rootPath, hp)
         IN  [ ok |-> this.ok /\ rest.ok,
               nodes |-> this.nodes \o rest.nodes,
               edges |-> this.edges \o rest.edges,
               edgeNodeIds |-> this.edgeNodeIds \o rest.edgeNodeIds ]

\* "Verify": every checked edge has both ends among the node ids
VerifyEdges(nodeIds, edgeNodeIds) ==
    \A i \in 1..Len(edgeNodeIds) :
        edgeNodeIds[i].from \in nodeIds /\ edgeNodeIds[i].to \in nodeIds

\* asGXL(symbolsByFile, references, rootPath): the document, or threw
asGXL(symbolsByFile, references, rootPath, hp) ==
    LET built == GXLFrom(1, 1, symbolsByFile, references, rootPath, hp)
        nodeIds == { built.nodes[i].id : i \in 1..Len(built.nodes) }
    IN  IF built.ok /\ VerifyEdges(nodeIds, built.edgeNodeIds)
        THEN [status |-> "returned", nodes |-> built.nodes, edges |-> built.edges]
        ELSE [status |-> "threw", nodes |-> <<>>, edges |-> <<>>]

----------------------------------------------------------------------------
\* The state of a run

VARIABLES
    argv,       \* the command line: command, rootPath, filePattern, noReferences,
                \* and files, what the glob stream yields for filePattern
    pc,         \* where main is
    using,      \* the teardown actions registered so far
    usingIdx,   \* the teardown action the finally loop runs next
    provider,   \* the language server process: none, running, signalled, exited
    inflight,   \* the requests sent and not answered
    exitCode,   \* process.exitCode
    fileIdx,    \* the file of `files` the loop is at
    docSymbols, \* docSymbols of the current file
    symIdx,     \* the symbol of docSymbols the references loop is at
    heap,       \* the symbol objects
    symbols,    \* Map from URI to symbols
    allReferences,            \* Map from definition to references
    symbolToSymbolReferences, \* Map from definition to referencing symbols
    gxl,        \* what asGXL gave: the nodes and edges of the document, or threw
    written,    \* the out file has been written
    requestLog  \* history: the requests sent, in order

vars == << argv, pc, using, usingIdx, provider, inflight, exitCode, fileIdx,
           docSymbols, symIdx, heap, symbols, allReferences,
           symbolToSymbolReferences, gxl, written, requestLog >>

NoPosition == Pos(0, 0)

Request(method, uri, position) ==
    [method |-> method, uri |-> uri, position |-> position]

NoUri == <<Undefined, <<>>>>

\* an entry of the history: the request, the file and symbol it is for and
\* the column the symbol's declaration started at before any keyword skip
LogEntry(request, f, i, character) ==
    [request |-> request, file |-> f, sym |-> i, declCharacter |-> character]

\* gxl before asGXL is called
NoGXL == [status |-> "none", nodes |-> <<>>, edges |-> <<>>]

Init ==
    /\ argv \in { [command |-> c, rootPath |-> r, filePattern |-> p,
                   noReferences |-> n, files |-> fs] :
                     c \in BOOLEAN, r \in RootPaths, p \in BOOLEAN, n \in BOOLEAN,
                     fs \in UNION { InjectiveSeqs(CandidateFiles(r2), MaxFiles) : r2 \in RootPaths } }
    /\ argv.files \in InjectiveSeqs(CandidateFiles(argv.rootPath), MaxFiles)
    /\ (~argv.command \/ ~argv.filePattern) => argv.files = <<>>
    /\ pc = "start"
    /\ using = <<>>
    /\ usingIdx = 1
    /\ provider = "none"
    /\ inflight = {}
    /\ exitCode = 0
    /\ fileIdx = 1
    /\ docSymbols = <<>>
    /\ symIdx = 1
    /\ heap = << >>
    /\ symbols = <<>>
    /\ allReferences = <<>>
    /\ symbolToSymbolReferences = <<>>
    /\ gxl = NoGXL
    /\ written = FALSE
    /\ requestLog = <<>>

----------------------------------------------------------------------------
\* main, one action for each stretch between two awaits

CurrentFile == argv.files[fileIdx]

CurrentUri == <<"file:", CurrentFile>>

CurrentSymbol == heap[docSymbols[symIdx]]

Send(request, f, i, character) ==
    /\ inflight' = inflight \cup {request}
    /\ requestLog' = Append(requestLog, LogEntry(request, f, i, character))

\* an exception reaches the catch block: process.exitCode = 1, then finally
Caught ==
    /\ exitCode' = 1
    /\ pc' = "finally"

\* "No language server command given": return before anything is spawned
NoCommand ==
    /\ pc = "start"
    /\ ~argv.command
    /\ exitCode' = 1
    /\ pc' = "finally"
    /\ UNCHANGED << argv, using, usingIdx, provider, inflight, fileIdx, docSymbols,
                    symIdx, heap, symbols, allReferences, symbolToSymbolReferences,
                    gxl, written, requestLog >>

\* spawn the language server, register the two teardown actions, send initialize
Spawn ==
    /\ pc = "start"
    /\ argv.command
    /\ provider' = "running"
    /\ using' = <<"kill", "shutdown">>
    /\ Send(Request("initialize", NoUri, NoPosition), 0, 0, 0)
    /\ pc' = "awaitInit"
    /\ UNCHANGED << argv, usingIdx, exitCode, fileIdx, docSymbols, symIdx, heap,
                    symbols, allReferences, symbolToSymbolReferences, gxl, written >>

\* the initialize result arrives; "No file pattern provided" returns
InitializeResponse ==
    /\ pc = "awaitInit"
    /\ provider = "running"
    /\ inflight' = {}
    /\ IF argv.filePattern
       THEN pc' = "nextFile" /\ UNCHANGED exitCode
       ELSE pc' = "finally" /\ exitCode' = 1
    /\ UNCHANGED << argv, using, usingIdx, provider, fileIdx, docSymbols, symIdx,
                    heap, symbols, allReferences, symbolToSymbolReferences, gxl,
                    written, requestLog >>

\* the provider answers a request of the main part with an error
RequestRejected ==
    /\ pc \in {"awaitInit", "awaitSymbols", "awaitRefs"}
    /\ provider = "running"
    /\ inflight' = {}
    /\ Caught
    /\ UNCHANGED << argv, using, usingIdx, provider, fileIdx, docSymbols, symIdx,
                    heap, symbols, allReferences, symbolToSymbolReferences, gxl,
                    written, requestLog >>

\* the glob stream yields the next file: request its symbols
NextFile ==
    /\ pc = "nextFile"
    /\ fileIdx <= Len(argv.files)
    /\ Send(Request("textDocument/documentSymbol", CurrentUri, NoPosition), fileIdx, 0, 0)
    /\ pc' = "awaitSymbols"
    /\ UNCHANGED << argv, using, usingIdx, provider, exitCode, fileIdx, docSymbols,
                    symIdx, heap, symbols, allReferences, symbolToSymbolReferences,
                    gxl, written >>

\* the glob stream ends
EndOfFiles ==
    /\ pc = "nextFile"
    /\ fileIdx > Len(argv.files)
    /\ pc' = "resolve"
    /\ UNCHANGED << argv, using, usingIdx, provider, inflight, exitCode, fileIdx,
                    docSymbols, symIdx, heap, symbols, allReferences,
                    symbolToSymbolReferences, gxl, written, requestLog >>

\* the document symbols arrive: store the filtered list, add the directories
DocumentSymbolsResponse ==
    /\ pc = "awaitSymbols"
    /\ provider = "running"
    /\ \E result \in DocumentSymbolResults(CurrentFile) :
          LET oids == [i \in 1..Len(result.items) |-> SymOid(fileIdx, i)]
              heap1 == heap @@ [o \in Range(oids) |-> result.items[o.idx]]
              symbols1 == MapSet(symbols, CurrentUri, FilterGXLSymbols(oids, heap1))
              after == DirectoryLoop(Split(CurrentFile), argv.rootPath, symbols1, heap1)
          IN  /\ docSymbols' = oids
              /\ symbols' = after.symbols
              /\ heap' = after.heap
    /\ symIdx' = 1
    /\ inflight' = {}
    /\ pc' = "refLoop"
    /\ UNCHANGED << argv, using, usingIdx, provider, exitCode, fileIdx,
                    allReferences, symbolToSymbolReferences, gxl, written, requestLog >>

InReferencesLoop ==
    /\ pc = "refLoop"
    /\ ~argv.noReferences
    /\ symIdx <= Len(docSymbols)

\* the line the declaration of the current symbol starts on
DeclarationLine == SymbolSelectionRange(CurrentSymbol).start.line

DeclarationCharacter == SymbolSelectionRange(CurrentSymbol).start.character

LineExists == DeclarationLine < Len(FileLines(CurrentFile))

LineContent == FileLines(CurrentFile)[DeclarationLine + 1]

\* continue: a symbol of an excluded kind, or one declared on an import line
SkipSymbol ==
    /\ InReferencesLoop
    /\ \/ getGXLSymbolKind(CurrentSymbol.kind) = Undefined
       \/ (LineExists /\ IsImportLine(LineContent))
    /\ symIdx' = symIdx + 1
    /\ UNCHANGED << argv, pc, using, usingIdx, provider, inflight, exitCode, fileIdx,
                    docSymbols, heap, symbols, allReferences,
                    symbolToSymbolReferences, gxl, written, requestLog >>

\* the file has no such line: lineContent is undefined and .slice throws
LineMissing ==
    /\ InReferencesLoop
    /\ getGXLSymbolKind(CurrentSymbol.kind) # Undefined
    /\ ~LineExists
    /\ Caught
    /\ UNCHANGED << argv, using, usingIdx, provider, inflight, fileIdx, docSymbols,
                    symIdx, heap, symbols, allReferences, symbolToSymbolReferences,
                    gxl, written, requestLog >>

\* the request sent and the loop going on without awaiting the answer
SendReferencesRequestUnawaited ==
    /\ InReferencesLoop
    /\ getGXLSymbolKind(CurrentSymbol.kind) # Undefined
    /\ LineExists
    /\ ~IsImportLine(LineContent)
    /\ LET character == ReferenceCharacter(LineContent, DeclarationCharacter)
       IN  /\ heap' = [heap EXCEPT ![docSymbols[symIdx]] = WithStartCharacter(@, character)]
           /\ Send(Request("textDocument/references", CurrentUri,
                           Pos(DeclarationLine, character)),
                   fileIdx, symIdx, DeclarationCharacter)
    /\ symIdx' = symIdx + 1
    /\ UNCHANGED << argv, pc, using, usingIdx, provider, exitCode, fileIdx, docSymbols,
                    symbols, allReferences, symbolToSymbolReferences, gxl, written >>

\* move the position over a keyword and request the references
SendReferencesRequest ==
    /\ InReferencesLoop
    /\ getGXLSymbolKind(CurrentSymbol.kind) # Undefined
    /\ LineExists
    /\ ~IsImportLine(LineContent)
    /\ LET character == ReferenceCharacter(LineContent, DeclarationCharacter)
       IN  /\ heap' = [heap EXCEPT ![docSymbols[symIdx]] = WithStartCharacter(@, character)]
           /\ Send(Request("textDocument/references", CurrentUri,
                           Pos(DeclarationLine, character)),
                   fileIdx, symIdx, DeclarationCharacter)
    /\ pc' = "awaitRefs"
    /\ UNCHANGED << argv, using, usingIdx, provider, exitCode, fileIdx, docSymbols,
                    symIdx, symbols, allReferences, symbolToSymbolReferences, gxl,
                    written >>

\* the references arrive
ReferencesResponse ==
    /\ pc = "awaitRefs"
    /\ provider = "running"
    /\ \E result \in ReferencesResults(argv.rootPath) :
          allReferences' = MapSet(allReferences, docSymbols[symIdx], result.items)
    /\ symIdx' = symIdx + 1
    /\ inflight' = {}
    /\ pc' = "refLoop"
    /\ UNCHANGED << argv, using, usingIdx, provider, exitCode, fileIdx, docSymbols,
                    heap, symbols, symbolToSymbolReferences, gxl, written, requestLog >>

\* "Add symbol for file": pushed onto docSymbols, and on to the next file
EndFile ==
    /\ pc = "refLoop"
    /\ argv.noReferences \/ symIdx > Len(docSymbols)
    /\ docSymbols' = Append(docSymbols, FileOid(fileIdx))
    /\ heap' = heap @@ (FileOid(fileIdx) :> FileSymbol(argv.rootPath, CurrentFile))
    /\ fileIdx' = fileIdx + 1
    /\ pc' = "nextFile"
    /\ UNCHANGED << argv, using, usingIdx, provider, inflight, exitCode, symIdx,
                    symbols, allReferences, symbolToSymbolReferences, gxl, written,
                    requestLog >>


\* the reference resolution loop
Resolve ==
    /\ pc = "resolve"
    /\ symbolToSymbolReferences' = ResolveReferences(allReferences, symbols, heap)
    /\ pc' = "build"
    /\ UNCHANGED << argv, using, usingIdx, provider, inflight, exitCode, fileIdx,
                    docSymbols, symIdx, heap, symbols, allReferences, gxl, written,
                    requestLog >>

\* const gxl = asGXL(...), and writeFile is started unless asGXL threw
BuildGraph ==
    /\ pc = "build"
    /\ gxl' = asGXL(symbols, symbolToSymbolReferences, argv.rootPath, heap)
    /\ IF gxl'.status = "threw"
       THEN Caught
       ELSE pc' = "awaitWrite" /\ UNCHANGED exitCode
    /\ UNCHANGED << argv, using, usingIdx, provider, inflight, fileIdx, docSymbols,
                    symIdx, heap, symbols, allReferences, symbolToSymbolReferences,
                    written, requestLog >>

\* writeFile succeeds or fails
WriteFile ==
    /\ pc = "awaitWrite"
    /\ \E ok \in BOOLEAN :
          /\ written' = ok
          /\ exitCode' = IF ok THEN exitCode ELSE 1
    /\ pc' = "finally"
    /\ UNCHANGED << argv, using, usingIdx, provider, inflight, fileIdx, docSymbols,
                    symIdx, heap, symbols, allReferences, symbolToSymbolReferences,
                    gxl, requestLog >>

\* finally, using[0]: childProcess.kill() sends SIGTERM
TeardownKill ==
    /\ pc = "finally"
    /\ usingIdx <= Len(using)
    /\ using[usingIdx] = "kill"
    /\ provider' = IF provider = "running" THEN "signalled" ELSE provider
    /\ usingIdx' = usingIdx + 1
    /\ UNCHANGED << argv, pc, using, inflight, exitCode, fileIdx, docSymbols, symIdx,
                    heap, symbols, allReferences, symbolToSymbolReferences, gxl,
                    written, requestLog >>

\* finally, using[1]: connection.sendRequest(ShutdownRequest.type), awaited
TeardownShutdown ==
    /\ pc = "finally"
    /\ usingIdx <= Len(using)
    /\ using[usingIdx] = "shutdown"
    /\ Send(Request("shutdown", NoUri, NoPosition), 0, 0, 0)
    /\ pc' = "awaitShutdown"
    /\ UNCHANGED << argv, using, usingIdx, provider, exitCode, fileIdx, docSymbols,
                    symIdx, heap, symbols, allReferences, symbolToSymbolReferences,
                    gxl, written >>

\* the provider answers the shutdown request, if it still lives
ShutdownResponse ==
    /\ pc = "awaitShutdown"
    /\ provider \in {"running", "signalled"}
    /\ inflight' = {}
    /\ usingIdx' = usingIdx + 1
    /\ pc' = "finally"
    /\ UNCHANGED << argv, using, provider, exitCode, fileIdx, docSymbols, symIdx,
                    heap, symbols, allReferences, symbolToSymbolReferences, gxl,
                    written, requestLog >>

\* the finally loop is through: main returns
MainReturns ==
    /\ pc = "finally"
    /\ usingIdx > Len(using)
    /\ pc' = "done"
    /\ UNCHANGED << argv, using, usingIdx, provider, inflight, exitCode, fileIdx,
                    docSymbols, symIdx, heap, symbols, allReferences,
                    symbolToSymbolReferences, gxl, written, requestLog >>

\* the signalled language server process ends; it answers nothing any more
ProviderExits ==
    /\ provider = "signalled"
    /\ provider' = "exited"
    /\ UNCHANGED << argv, pc, using, usingIdx, inflight, exitCode, fileIdx,
                    docSymbols, symIdx, heap, symbols, allReferences,
                    symbolToSymbolReferences, gxl, written, requestLog >>

Next ==
    \/ NoCommand
    \/ Spawn
    \/ InitializeResponse
    \/ RequestRejected
    \/ NextFile
    \/ EndOfFiles
    \/ DocumentSymbolsResponse
    \/ SkipSymbol
    \/ LineMissing
    \/ SendReferencesRequest
    \/ ReferencesResponse
    \/ EndFile
    \/ Resolve
    \/ BuildGraph
    \/ WriteFile
    \/ TeardownKill
    \/ TeardownShutdown
    \/ ShutdownResponse
    \/ MainReturns
    \/ ProviderExits

Spec == Init /\ [][Next]_vars

\* Every continuation that is ready runs, and the provider process runs: the
\* event loop and the operating system leave no enabled step waiting forever.
FairSpec == Spec /\ WF_vars(Next)

----------------------------------------------------------------------------
\* What the properties speak of

\* the stored symbols: each with the URI it is stored under
StoredSymbols ==
    UNION { { [uri |-> symbols[k].key, oid |-> o] : o \in Range(symbols[k].val) } :
              k \in 1..Len(symbols) }

\* the stored symbols that asGXL makes a node of
NodeSymbols ==
    { s \in StoredSymbols : getGXLSymbolKind(heap[s.oid].kind) # Undefined }

\* the ids of the nodes of the document
EmittedNodeIds == { gxl.nodes[i].id : i \in 1..Len(gxl.nodes) }

EmittedEdges == Range(gxl.edges)

\* the directories that have a stored pseudo-symbol
StoredDirectories ==
    { symbols[k].key[2] : k \in { j \in 1..Len(symbols) :
                                    \E o \in Range(symbols[j].val) : o.tag = "dir" } }

\* p is d or lies below d
AtOrBelow(p, d) == Len(p) >= Len(d) /\ SubSeq(p, 1, Len(d)) = d

\* the files whose iteration of the loop is through
ProcessedFiles == 1..(fileIdx - 1)

\* the requests of the per-file loop in the history
LoopRequests ==
    SelectSeq(requestLog, LAMBDA e : e.request.method \in
                  {"textDocument/documentSymbol", "textDocument/references"})

ReferencesRequests ==
    SelectSeq(requestLog, LAMBDA e : e.request.method = "textDocument/references")

\* the line a logged references request was computed from
LoggedLine(e) == FileLines(argv.files[e.file])[e.request.position.line + 1]

----------------------------------------------------------------------------
\* C1: in a document that asGXL returns, both ends of every edge, Enclosing
\* or Source_Dependency, are ids of nodes of that document.
C1_NoDanglingEdges ==
    gxl.status = "returned" =>
        \A e \in EmittedEdges : e.from \in EmittedNodeIds /\ e.to \in EmittedNodeIds

\* the ids reached from the ids of S along the pairs of E
RECURSIVE ReachedFrom(_, _)
ReachedFrom(S, E) ==
    LET more == S \cup { p[2] : p \in { q \in E : q[1] \in S } }
    IN  IF more = S THEN S ELSE ReachedFrom(more, E)

EnclosingPairs ==
    { <<e.from, e.to>> : e \in { d \in EmittedEdges : d.type = "Enclosing" } }

\* a node that the forest property takes not to be a root
IsNonRoot(s) ==
    \/ getGXLSymbolKind(heap[s.oid].kind) \in {"Class", "Member", "Method", "Routine"}
    \/ /\ getGXLSymbolKind(heap[s.oid].kind) = "File"
       /\ ParentDir(s.uri[2]) \in StoredDirectories

\* C2: in a document that asGXL returns, every non-root node has exactly one
\* outgoing Enclosing edge, and the Enclosing edges have no cycle.
C2_EnclosingForest ==
    gxl.status = "returned" =>
        /\ \A s \in NodeSymbols :
              IsNonRoot(s) =>
                 Cardinality({ i \in 1..Len(gxl.edges) :
                                 /\ gxl.edges[i].type = "Enclosing"
                                 /\ gxl.edges[i].from = nodeID(heap[s.oid]) }) = 1
        /\ \A p \in EnclosingPairs : p[1] \notin ReachedFrom({p[2]}, EnclosingPairs)

\* the resolver has run
Resolved == pc \in {"build", "awaitWrite"} \/ gxl.status # "none"

\* C3: a reference inside both a Class symbol and a Method symbol nested in
\* it, of the referencing document, is resolved to the Method, whatever the
\* order of the two in the stored list.
C3_PrefersMethod ==
    Resolved =>
        \A k \in 1..Len(allReferences) : \A j \in 1..Len(allReferences[k].val) :
            LET reference == allReferences[k].val[j]
                documentSymbols ==
                    IF MapHas(symbols, reference.uri)
                    THEN MapGet(symbols, reference.uri) ELSE <<>>
                selected == FindReferencingSymbol(documentSymbols, reference.range, heap)
            IN  (\E c, m \in Range(documentSymbols) :
                    /\ heap[c].kind = "Class"
                    /\ heap[m].kind = "Method"
                    /\ RangeContains(SymbolRange(heap[c]), SymbolRange(heap[m]))
                    /\ RangeContains(SymbolRange(heap[c]), reference.range)
                    /\ RangeContains(SymbolRange(heap[m]), reference.range))
                => /\ selected \in Range(symbolToSymbolReferences[k].val)
                   /\ heap[selected].kind = "Method"

\* C4: for every definition D and referencing symbol R the resolver maps to
\* it, construction succeeds and the document has a Source_Dependency edge
\* from the node id of R to the node id of D.
C4_DependencyEdgeEmitted ==
    gxl.status # "none" =>
        \A k \in 1..Len(symbolToSymbolReferences) :
            \A r \in Range(symbolToSymbolReferences[k].val) :
                LET d == symbolToSymbolReferences[k].key
                IN  (/\ d \in { s.oid : s \in NodeSymbols }
                     /\ r \in { s.oid : s \in NodeSymbols })
                    => /\ gxl.status = "returned"
                       /\ \E e \in EmittedEdges :
                             /\ e.type = "Source_Dependency"
                             /\ e.from = nodeID(heap[r])
                             /\ e.to = nodeID(heap[d])


\* the directories from the parent of a file up to the root, the root included
AncestorsWithinRoot(file) ==
    { SubSeq(file, 1, n) : n \in Len(argv.rootPath)..(Len(file) - 1) }

\* C5 as first stated: a pseudo-symbol is stored for every ancestor of a
\* processed file strictly inside the root, and never for the root itself
\* or a directory above it.
C5_OnlyStrictlyInsideRoot ==
    /\ \A f \in ProcessedFiles :
          AncestorsWithinRoot(argv.files[f]) \ {argv.rootPath} \subseteq StoredDirectories
    /\ \A d \in StoredDirectories : AtOrBelow(d, argv.rootPath) /\ d # argv.rootPath

\* C5, amended: a pseudo-symbol is stored for every ancestor of a processed
\* file from its parent up to the root, the root itself included, and never
\* for a directory outside the root.
C5_RootAndBelow ==
    /\ \A f \in ProcessedFiles :
          AncestorsWithinRoot(argv.files[f]) \subseteq StoredDirectories
    /\ \A d \in StoredDirectories : AtOrBelow(d, argv.rootPath)

\* root /a/b and file /a/b/c/d.py processed: /a/b/c and /a/b have a pseudo-symbol
C5_Witness ==
    /\ argv.rootPath = <<"a", "b">>
    /\ \E f \in ProcessedFiles : argv.files[f] = <<"a", "b", "c", "d.py">>
    /\ {<<"a", "b", "c">>, <<"a", "b">>} \subseteq StoredDirectories

\* C6: once a file is processed, the list stored under its URI holds a File
\* symbol named by the path of the file relative to the root.
C6_FileSymbolStored ==
    \A f \in ProcessedFiles :
        /\ MapHas(symbols, <<"file:", argv.files[f]>>)
        /\ \E o \in Range(MapGet(symbols, <<"file:", argv.files[f]>>)) :
              /\ heap[o].kind = "File"
              /\ NameIsPath(heap[o].name, Relative(argv.rootPath, argv.files[f]))

\* the text of the line of a logged request from the column of the declaration
TextAtDeclaration(e) == Slice(LoggedLine(e), e.declCharacter)

\* C7 as first stated: the position sent is c + 4 behind "def " and c + 6
\* behind "class ".
C7_PositionPastKeyword ==
    \A i \in 1..Len(ReferencesRequests) :
        LET e == ReferencesRequests[i]
        IN  /\ StartsWith(TextAtDeclaration(e), <<"d", "e", "f", " ">>)
                 => e.request.position.character = e.declCharacter + 4
            /\ StartsWith(TextAtDeclaration(e), <<"c", "l", "a", "s", "s", " ">>)
                 => e.request.position.character = e.declCharacter + 6

\* C7, amended: the position sent is c + 5 behind "def " (and 7 more when the
\* text from c + 5 begins with "class "), and c + 7 behind "class ".
C7_PositionOnePastKeyword ==
    \A i \in 1..Len(ReferencesRequests) :
        LET e == ReferencesRequests[i]
            c == e.declCharacter
        IN  /\ e.request.position.line =
                  SymbolSelectionRange(heap[SymOid(e.file, e.sym)]).start.line
            /\ StartsWith(TextAtDeclaration(e), <<"d", "e", "f", " ">>)
                 => e.request.position.character =
                       IF StartsWith(Slice(LoggedLine(e), c + 5),
                                     <<"c", "l", "a", "s", "s", " ">>)
                       THEN c + 12 ELSE c + 5
            /\ StartsWith(TextAtDeclaration(e), <<"c", "l", "a", "s", "s", " ">>)
                 => e.request.position.character = c + 7

\* the definition at column 0 of "def foo():" has been looked up, at column 5
C7_Witness ==
    \E i \in 1..Len(ReferencesRequests) :
        LET e == ReferencesRequests[i]
        IN  /\ LoggedLine(e) = <<"d", "e", "f", " ", "f", "o", "o", "(", ")", ":">>
            /\ e.declCharacter = 0
            /\ e.request.position.character = 5

\* C8: two stored symbols with the same name, kind, range and document have
\* the same node id, whatever their other fields.
C8_IdentityOfFourFields ==
    \A s, t \in NodeSymbols :
        (/\ heap[s.oid].name = heap[t.oid].name
         /\ heap[s.oid].kind = heap[t.oid].kind
         /\ SymbolRange(heap[s.oid]) = SymbolRange(heap[t.oid])
         /\ s.uri = t.uri)
        => nodeID(heap[s.oid]) = nodeID(heap[t.oid])

\* C9: once the provider is spawned, main ends with every teardown action
\* run to completion: the provider killed, the shutdown request sent and
\* answered.
C9_TeardownCompletes ==
    [](provider # "none" =>
          <>(/\ pc = "done"
             /\ provider \in {"signalled", "exited"}
             /\ \E i \in 1..Len(requestLog) : requestLog[i].request.method = "shutdown"
             /\ inflight = {}))


\* the number of symbols the provider listed for the f-th file
SymbolCount(f) == Cardinality({ o \in DOMAIN heap : o.tag = "sym" /\ o.file = f })

\* the i-th symbol of the f-th file is one that references are requested for
InScope(f, i) ==
    LET sym == heap[SymOid(f, i)]
    IN  /\ ~argv.noReferences
        /\ getGXLSymbolKind(sym.kind) # Undefined
        /\ ~IsImportLine(FileLines(argv.files[f])[SymbolSelectionRange(sym).start.line + 1])

\* the requests that a run through all files is to make, from the i-th
\* symbol of the f-th file on; symbol 0 stands for the document-symbols request
RECURSIVE ExpectedRequests(_, _)
ExpectedRequests(f, i) ==
    IF f > Len(argv.files) THEN <<>>
    ELSE IF i > SymbolCount(f) THEN ExpectedRequests(f + 1, 0)
    ELSE (IF i = 0 \/ InScope(f, i) THEN <<[file |-> f, sym |-> i]>> ELSE <<>>)
         \o ExpectedRequests(f, i + 1)

\* the loop over the files is through
LoopDone == pc \in {"resolve", "build", "awaitWrite"} \/ gxl.status # "none"

\* C10: at most one request is outstanding; the requests of the loop are
\* issued file after file in glob order, for each file its document-symbols
\* request and then the references requests of its in-scope symbols in
\* document order; and resolution starts with all of them made and answered.
C10_RequestsInOrder ==
    /\ Cardinality(inflight) <= 1
    /\ \A i \in 1..(Len(LoopRequests) - 1) :
          LET a == LoopRequests[i]
              b == LoopRequests[i + 1]
          IN  a.file < b.file \/ (a.file = b.file /\ a.sym < b.sym)
    /\ \A i \in 1..Len(LoopRequests) :
          LET e == LoopRequests[i]
          IN  /\ e.file \in 1..Len(argv.files)
              /\ e.request.uri = <<"file:", argv.files[e.file]>>
              /\ (e.sym = 0) = (e.request.method = "textDocument/documentSymbol")
              /\ e.sym # 0 => InScope(e.file, e.sym)
    /\ LoopDone =>
          /\ \A r \in inflight : r.method = "shutdown"
          /\ [i \in 1..Len(LoopRequests) |->
                [file |-> LoopRequests[i].file, sym |-> LoopRequests[i].sym]]
               = ExpectedRequests(1, 0)

\* resolution is about to start after two files and several references requests
C10_Witness ==
    /\ pc = "resolve"
    /\ Len(argv.files) = 2
    /\ Len(ReferencesRequests) >= 2
    /\ \E i, j \in 1..Len(ReferencesRequests) :
          ReferencesRequests[i].file # ReferencesRequests[j].file

=============================================================================
